---- MODULE Spec2Model ----
(***************************************************************************)
(* Building placement of the wilderness survival game: the BuildingSystem  *)
(* class (src/src/buildingSystem.js, first class of the file), the         *)
(* stacking Inventory it debits (src/unnamed/part_002), the terminal's     *)
(* unlimited-logs cheat (src/unnamed/part_006), the page's key handlers    *)
(* and frame loop around them (src/unnamed/part_004) and the               *)
(* DayNightCycle the frame loop drives (src/src/dayNightCycle.js).         *)
(*                                                                         *)
(* Lengths are in thousandths of a world unit (a wall is 2000 x 3000 x    *)
(* 200), angles are yaws in degrees and multiples of 90, so every rotation  *)
(* and every halving is exact.                                             *)
(* Scene nodes are numbered: node i is objs[i]; a new node takes the free  *)
(* number, and a disposed ghost, which nothing refers to, gives its number *)
(* back.                                                                   *)
(* DOM presentation (menu markup, prompt text) is not part of the state,   *)
(* except whether the building menu and its key listener are up; the alert *)
(* of startBuilding and an exception leaving a call are recorded in        *)
(* lastCall.                                                               *)
(***************************************************************************)
EXTENDS Integers, Sequences, FiniteSets, TLC

VARIABLES slots, unlimitedLogs, isBuilding, currentBlueprint, buildingType,
          wallRotationIndex, isSnapping, objs, scene, placedPieces, lastCall,
          args, result,
          forceCleanupBlueprint, blueprintCreationTime, buildingMenuOpen, now,
          ghostSince, ghostAfterEscape, frameRan,
          dayNightCycle, nightCallbacks

vars == <<slots, unlimitedLogs, isBuilding, currentBlueprint, buildingType,
          wallRotationIndex, isSnapping, objs, scene, placedPieces, lastCall,
          args, result,
          forceCleanupBlueprint, blueprintCreationTime, buildingMenuOpen, now,
          ghostSince, ghostAfterEscape, frameRan,
          dayNightCycle, nightCallbacks>>

\* the arguments and the value of a function that is called on its own
Pure == <<args, result>>
NoArgs == [fn |-> "none"]
NoResult == [fn |-> "none"]

\* the page's script around the building system (src/unnamed/part_004): the
\* flag the Escape key raises for the frame loop, the time stamp of the
\* frame loop's window watchdog, whether the building menu and its key
\* listener are up, and the clock Date.now() reads, in milliseconds.
\* ghostSince records the clock at the startBuilding() that made the
\* current ghost, ghostAfterEscape that this startBuilding() came after an
\* Escape key press the frame loop has still to act on, frameRan that
\* requestAnimationFrame has run animate() at the present reading of the
\* clock
Page == <<forceCleanupBlueprint, blueprintCreationTime, buildingMenuOpen, now,
          ghostSince, ghostAfterEscape, frameRan>>
\* the DayNightCycle object (src/src/dayNightCycle.js) and the callbacks it
\* has invoked, oldest first
DayNight == <<dayNightCycle, nightCallbacks>>
Outside == <<Page, DayNight>>
Null == -1
TickMs == 2500
PageLoaded ==
    /\ forceCleanupBlueprint = FALSE
    /\ blueprintCreationTime = Null
    /\ buildingMenuOpen = FALSE
    /\ now = TickMs
    /\ ghostSince = Null
    /\ ghostAfterEscape = FALSE
    /\ frameRan = FALSE
    /\ dayNightCycle = [isNight |-> FALSE, isTransitioning |-> FALSE,
                        cycleStartTime |-> TickMs, isPaused |-> FALSE]
    /\ nightCallbacks = <<>>

(***************************************************************************)
(* Bounds of the model                                                     *)
(***************************************************************************)
\* scene nodes alive at a time
MaxObjects == 6
\* entries of placedPieces
MaxPieces == 3
\* entries of placedPieces when the unlimited-logs cheat is at hand
MaxCheatPieces == 1
\* ghost nodes in the scene at a time
MaxGhosts == 2
\* logs held at the start
MaxInitLogs == 4
\* cap on the logs held
MaxLogs == 9
\* logs held at the start, and entries of placedPieces, where a foundation
\* and a wall are to be afforded
SnapInitLogs == 7
MaxSnapPieces == 2
\* the specification with a wall and a door in it, and the player moving
DoorInitLogs == 5
MaxDoorPieces == 2
\* intersections a movement ray reports
MaxHits == 1
\* the specification that starts with two foundations and a wall placed
AnchorInitLogs == 4
MaxAnchorPieces == 4

(***************************************************************************)
(* Program constants                                                       *)
(***************************************************************************)
NumSlots == 5
MaxStack == 999
UnlimitedCount == 999
CheatLogs == 10
SnapDistance == 4000
WallHalfHeight == 1500
RoofOffset == 3000
SnapGap == 100
\* the player's step per frame, 0.1, and COLLISION_THRESHOLD, 0.02
Speed == 100
CollisionThreshold == 20

BuildingTypes == {"wall", "foundation", "roof", "window", "door"}
NoType == "none"

costs == [t \in BuildingTypes |->
            CASE t = "wall" -> 3
              [] t = "foundation" -> 4
              [] t = "roof" -> 2
              [] t = "window" -> 1
              [] t = "door" -> 2]

getPieceSize(t) ==
    CASE t = "wall" -> [x |-> 2000, y |-> 3000, z |-> 200]
      [] t = "foundation" -> [x |-> 2000, y |-> 200, z |-> 2000]
      [] t = "roof" -> [x |-> 2000, y |-> 200, z |-> 2000]
      [] t = "window" -> [x |-> 800, y |-> 800, z |-> 100]
      [] t = "door" -> [x |-> 1000, y |-> 2000, z |-> 100]
      [] OTHER -> [x |-> 0, y |-> 0, z |-> 0]

(***************************************************************************)
(* Vectors                                                                 *)
(***************************************************************************)
Vec(a, b, c) == [x |-> a, y |-> b, z |-> c]
Zero3 == Vec(0, 0, 0)
VSub(p, q) == Vec(p.x - q.x, p.y - q.y, p.z - q.z)
VAdd(p, q) == Vec(p.x + q.x, p.y + q.y, p.z + q.z)
Dist2(p, q) == (p.x - q.x) * (p.x - q.x) + (p.y - q.y) * (p.y - q.y)
               + (p.z - q.z) * (p.z - q.z)
Abs(n) == IF n < 0 THEN -n ELSE n
\* n / 2, defined for the even n only: no rounding is ever hidden
Half(n) == IF n % 2 = 0 THEN n \div 2 ELSE CHOOSE h \in {} : TRUE
Norm360(a) == ((a % 360) + 360) % 360
Cos90(a) == CASE Norm360(a) = 0 -> 1
              [] Norm360(a) = 180 -> -1
              [] OTHER -> 0
Sin90(a) == CASE Norm360(a) = 90 -> 1
              [] Norm360(a) = 270 -> -1
              [] OTHER -> 0
\* Vector3.applyEuler(new Euler(0, a, 0)): rotation about the Y axis
RotY(p, a) == Vec(p.x * Cos90(a) + p.z * Sin90(a), p.y,
                  p.z * Cos90(a) - p.x * Sin90(a))

(***************************************************************************)
(* Inventory (src/unnamed/part_002)                                        *)
(***************************************************************************)
NoItem == [type |-> "none", quantity |-> 0]
Item(t, q) == [type |-> t, quantity |-> q]
EmptySlots == [i \in 1..NumSlots |-> NoItem]

RECURSIVE SumFrom(_, _, _)
SumFrom(s, t, i) ==
    IF i > NumSlots THEN 0
    ELSE (IF s[i].type = t THEN s[i].quantity ELSE 0) + SumFrom(s, t, i + 1)

getItemCount(s, unl, t) ==
    IF unl /\ t = "log" THEN UnlimitedCount ELSE SumFrom(s, t, 1)

\* slots.findIndex(slot => slot?.type === t): the first index whose slot
\* holds the type, 0 if none; NoItem's type stands for the null slot
FirstSlot(s, t) ==
    IF \E i \in 1..NumSlots : s[i].type = t
    THEN CHOOSE i \in 1..NumSlots :
            s[i].type = t /\ \A j \in 1..(i - 1) : s[j].type # t
    ELSE 0

removeItem(s, unl, t, count) ==
    IF unl /\ t = "log" THEN s
    ELSE LET i == FirstSlot(s, t)
         IN IF i = 0 THEN s
            ELSE IF s[i].quantity > count
                 THEN [s EXCEPT ![i].quantity = @ - count]
                 ELSE [s EXCEPT ![i] = NoItem]

\* the value removeItem returns
removeItemReturns(s, unl, t) == (unl /\ t = "log") \/ FirstSlot(s, t) # 0

\* the debit loop of build(): removeItem('log') once per log of the cost
RECURSIVE RemoveLogs(_, _, _)
RemoveLogs(s, unl, n) ==
    IF n = 0 THEN s ELSE RemoveLogs(removeItem(s, unl, "log", 1), unl, n - 1)

\* a debit that calls removeItem('log') once instead of once per log
DebitOnce(s, unl, cost) == removeItem(s, unl, "log", 1)

\* the logs of a piece's cost leave the inventory
Debit(s, unl, cost) == RemoveLogs(s, unl, cost)

\* addItem, stacking branch: top up the stacks of the type that are not
\* full, in slot order, then open new stacks in the empty slots
RECURSIVE TopUp(_, _, _, _)
TopUp(s, t, rem, i) ==
    IF i > NumSlots \/ rem <= 0 THEN [s |-> s, rem |-> rem]
    ELSE IF s[i].type = t /\ s[i].quantity < MaxStack
         THEN LET amt == IF MaxStack - s[i].quantity < rem
                         THEN MaxStack - s[i].quantity ELSE rem
              IN TopUp([s EXCEPT ![i].quantity = @ + amt], t, rem - amt, i + 1)
         ELSE TopUp(s, t, rem, i + 1)

RECURSIVE NewStacks(_, _, _)
NewStacks(s, t, rem) ==
    LET i == FirstSlot(s, NoItem.type)
    IN IF rem <= 0 \/ i = 0 THEN s
       ELSE LET amt == IF MaxStack < rem THEN MaxStack ELSE rem
            IN NewStacks([s EXCEPT ![i] = Item(t, amt)], t, rem - amt)

addItem(s, t, q) ==
    LET r == TopUp(s, t, q, 1)
    IN IF r.rem <= 0 THEN r.s ELSE NewStacks(r.s, t, r.rem)

(***************************************************************************)
(* Scene nodes                                                             *)
(***************************************************************************)
\* a reference to a mesh: node obj itself (seg = 0) or its seg-th child
Ref(o, k) == [obj |-> o, seg |-> k]
NoRef == Ref(0, 0)

\* a number no node has
Free ==
    [kind |-> "free", ghost |-> FALSE, buildingType |-> NoType, frame |-> NoType,
     pos |-> Zero3, rotY |-> 0, isCollidable |-> FALSE, targetWall |-> NoRef,
     segs |-> <<>>]
NoObjects == [i \in 1..MaxObjects |-> Free]
FreeIds(os) == {i \in 1..MaxObjects : os[i] = Free}
\* the number of the next node, 0 when none is left
Alloc(os) ==
    IF FreeIds(os) = {} THEN 0
    ELSE CHOOSE i \in FreeIds(os) : \A j \in FreeIds(os) : i <= j
New(os, node) == [os EXCEPT ![Alloc(os)] = node]

\* new THREE.Mesh(geometry, blueprintMaterial.clone()): empty userData
NewBlueprint ==
    [kind |-> "mesh", ghost |-> TRUE, buildingType |-> NoType, frame |-> NoType,
     pos |-> Zero3, rotY |-> 0, isCollidable |-> FALSE, targetWall |-> NoRef,
     segs |-> <<>>]

NewPiece(t, p, r) ==
    [kind |-> "mesh", ghost |-> FALSE, buildingType |-> t, frame |-> NoType,
     pos |-> p, rotY |-> r, isCollidable |-> TRUE, targetWall |-> NoRef,
     segs |-> <<>>]

\* a frame tagged collidable whatever its type
NewFrameSolid(t, p, r) ==
    [kind |-> "group", ghost |-> FALSE, buildingType |-> t, frame |-> t,
     pos |-> p, rotY |-> r, isCollidable |-> TRUE,
     targetWall |-> NoRef, segs |-> <<>>]

\* createWindowFrame / createDoorFrame followed by the tagging of build():
\* doors do not block movement
NewFrame(t, p, r) ==
    [kind |-> "group", ghost |-> FALSE, buildingType |-> t, frame |-> t,
     pos |-> p, rotY |-> r, isCollidable |-> (t = "window"),
     targetWall |-> NoRef, segs |-> <<>>]

Segment(n, p, w, h) ==
    [name |-> n, pos |-> p, w |-> w, h |-> h, buildingType |-> "wall",
     isCollidable |-> TRUE]

\* fields of the mesh a reference denotes, as the code reads them:
\* position and rotation are LOCAL to the parent
RefType(os, r) ==
    IF r.seg = 0 THEN os[r.obj].buildingType
    ELSE os[r.obj].segs[r.seg].buildingType
RefPos(os, r) ==
    IF r.seg = 0 THEN os[r.obj].pos ELSE os[r.obj].segs[r.seg].pos
RefRotY(os, r) == IF r.seg = 0 THEN os[r.obj].rotY ELSE 0
RefCollidable(os, r) ==
    IF r.seg = 0 THEN os[r.obj].isCollidable
    ELSE os[r.obj].segs[r.seg].isCollidable
\* half extents of the face of the mesh
RefHalfW(os, r) ==
    IF r.seg = 0 THEN Half(getPieceSize("wall").x)
    ELSE Half(os[r.obj].segs[r.seg].w)
RefHalfH(os, r) ==
    IF r.seg = 0 THEN Half(getPieceSize("wall").y)
    ELSE Half(os[r.obj].segs[r.seg].h)
\* where the mesh is in the world
WorldYaw(os, r) == os[r.obj].rotY
WorldPos(os, r) ==
    IF r.seg = 0 THEN os[r.obj].pos
    ELSE VAdd(os[r.obj].pos, RotY(os[r.obj].segs[r.seg].pos, os[r.obj].rotY))

Range(q) == {q[i] : i \in 1..Len(q)}
\* Array.indexOf, 0 when absent
IndexOf(q, e) ==
    IF \E i \in 1..Len(q) : q[i] = e
    THEN CHOOSE i \in 1..Len(q) : q[i] = e /\ \A j \in 1..(i - 1) : q[j] # e
    ELSE 0

Ghosts == {i \in scene : objs[i].ghost}
logCount == getItemCount(slots, unlimitedLogs, "log")

Call(op, threw, alerted) ==
    [op |-> op, threw |-> threw, alerted |-> alerted]

(***************************************************************************)
(* Inputs of the raycasts                                                  *)
(***************************************************************************)
\* camera.position + 3 * cameraDir
TargetPoints == {Vec(0, 1700, 0)}
\* heights at which the downward ray meets the scene under the target
GroundLevels == {0}
NoGround == [hit |-> FALSE, y |-> 0]
GroundHits == {NoGround} \cup {[hit |-> TRUE, y |-> g] : g \in GroundLevels}
\* atan2(cameraDir.x, cameraDir.z)
Yaws == {0}
\* where on the face of a wall the view ray lands (local x, y)
HitOffsets == {Vec(0, 0, 0), Vec(500, 500, 0)}
\* face normals of the front and the back face, in object space
FaceNormals == {Vec(0, 0, 1), Vec(0, 0, -1)}
NoHit == [ref |-> NoRef, point |-> Zero3, normal |-> Zero3]

\* the meshes tagged 'wall' that intersectObjects(placedPieces) can return:
\* plain walls and the segments of composite walls
WallMeshes ==
    {Ref(i, 0) : i \in {j \in Range(placedPieces) :
                          objs[j].kind = "mesh" /\ objs[j].buildingType = "wall"}}
    \cup UNION {{Ref(i, k) : k \in 1..Len(objs[i].segs)} :
                  i \in Range(placedPieces)}

\* the first wall hit of the view ray: a point of the front or back face
HitsOn(r) ==
    {[ref |-> r,
      point |-> VAdd(WorldPos(objs, r),
                     RotY(Vec(o.x, o.y, n.z * Half(getPieceSize("wall").z)),
                          WorldYaw(objs, r))),
      normal |-> n] :
        o \in {h \in HitOffsets : /\ Abs(h.x) <= RefHalfW(objs, r)
                                  /\ Abs(h.y) <= RefHalfH(objs, r)},
        n \in FaceNormals}
WallHits == UNION {HitsOn(r) : r \in WallMeshes}

(***************************************************************************)
(* Snapping rules                                                          *)
(***************************************************************************)
\* a rule that lets a window or a door snap to a wall as well
canSnapToOpenings(blueprintType, pieceType) ==
    \/ blueprintType = "wall" /\ pieceType = "foundation"
    \/ blueprintType = "roof" /\ pieceType = "foundation"
    \/ blueprintType = "foundation" /\ pieceType = "foundation"
    \/ blueprintType \in {"window", "door"} /\ pieceType = "wall"

\* a canSnapTo that still has the roof-on-roof rule the code removed
canSnapToRoofOnRoof(blueprintType, pieceType) ==
    IF pieceType = NoType THEN FALSE
    ELSE \/ blueprintType = "wall" /\ pieceType = "foundation"
         \/ blueprintType = "roof" /\ pieceType = "foundation"
         \/ blueprintType = "roof" /\ pieceType = "roof"
         \/ blueprintType = "foundation" /\ pieceType = "foundation"

canSnapTo(blueprintType, pieceType) ==
    IF pieceType = NoType THEN FALSE
    ELSE \/ blueprintType = "wall" /\ pieceType = "foundation"
         \/ blueprintType = "roof" /\ pieceType = "foundation"
         \/ blueprintType = "foundation" /\ pieceType = "foundation"

\* canSnapTo of the permissive BuildingSystem (src/unnamed/part_007)
canSnapToPermissive(blueprintType, pieceType) ==
    IF pieceType = NoType THEN FALSE
    ELSE \/ blueprintType = "wall" /\ pieceType = "foundation"
         \/ blueprintType = "wall" /\ pieceType = "wall"
         \/ blueprintType = "roof" /\ pieceType = "wall"
         \/ blueprintType = "foundation" /\ pieceType = "foundation"

Sign(n) == IF n > 0 THEN 1 ELSE -1

\* the ghost's position in the frame of the piece
LocalPos(bpPos, piece) == RotY(VSub(bpPos, piece.pos), -piece.rotY)

\* getSnapPosition: the snap position, and wallRotationIndex as the call
\* leaves it
getSnapPosition(blueprintType, bpPos, piece, wri) ==
    LET pieceType == piece.buildingType
        pieceSize == getPieceSize(pieceType)
        blueprintSize == getPieceSize(blueprintType)
        localPos == LocalPos(bpPos, piece)
        absX == Abs(localPos.x)
        absZ == Abs(localPos.z)
    IN CASE blueprintType = "wall" /\ pieceType = "foundation" ->
              LET y == piece.pos.y + Half(pieceSize.y) + Half(blueprintSize.y)
                       - SnapGap
              IN IF absX > absZ
                 THEN [pos |-> Vec(piece.pos.x + Sign(localPos.x) * Half(pieceSize.x),
                                   y, piece.pos.z),
                       wri |-> 1]
                 ELSE [pos |-> Vec(piece.pos.x, y,
                                   piece.pos.z + Sign(localPos.z) * Half(pieceSize.z)),
                       wri |-> 0]
         [] blueprintType = "roof" /\ pieceType = "foundation" ->
              [pos |-> Vec(piece.pos.x,
                           piece.pos.y + Half(pieceSize.y)
                           + getPieceSize("wall").y - Half(blueprintSize.y),
                           piece.pos.z),
               wri |-> wri]
         [] blueprintType = "foundation" /\ pieceType = "foundation" ->
              IF absX > absZ
              THEN [pos |-> Vec(piece.pos.x + Sign(localPos.x) * pieceSize.x,
                                piece.pos.y, piece.pos.z),
                    wri |-> wri]
              ELSE [pos |-> Vec(piece.pos.x, piece.pos.y,
                                piece.pos.z + Sign(localPos.z) * pieceSize.z),
                    wri |-> wri]
         [] OTHER -> [pos |-> piece.pos, wri |-> wri]

\* a getSnapRotation that copies the piece's rotation for every pair
getSnapRotationCopy(blueprintType, bpPos, piece) == piece.rotY

\* a getSnapRotation that turns every ghost at an X edge, not walls alone
getSnapRotationTurn(blueprintType, bpPos, piece) ==
    IF Abs(LocalPos(bpPos, piece).x) > Abs(LocalPos(bpPos, piece).z)
    THEN piece.rotY + 90 ELSE piece.rotY

getSnapRotation(blueprintType, bpPos, piece) ==
    LET localPos == LocalPos(bpPos, piece)
    IN IF blueprintType = "wall" /\ piece.buildingType = "foundation"
       THEN IF Abs(localPos.x) > Abs(localPos.z)
            THEN piece.rotY + 90 ELSE piece.rotY
       ELSE piece.rotY

\* a scan that starts from the snap distance of the permissive class, 2.5
NoSnapShort(wri) ==
    [piece |-> 0, d2 |-> 2500 * 2500, pos |-> Zero3, rotY |-> 0, wri |-> wri]

\* a scan that keeps the later piece when two are equally near
RECURSIVE SnapScanLast(_, _, _, _, _, _)
SnapScanLast(os, pp, blueprintType, bpPos, i, acc) ==
    IF i > Len(pp) THEN acc
    ELSE LET piece == os[pp[i]]
             d2 == Dist2(bpPos, piece.pos)
         IN IF canSnapTo(blueprintType, piece.buildingType)
               /\ d2 < 4000 * 4000 /\ (acc.piece = 0 \/ d2 <= acc.d2)
            THEN LET sp == getSnapPosition(blueprintType, bpPos, piece, acc.wri)
                 IN SnapScanLast(os, pp, blueprintType, bpPos, i + 1,
                                 [piece |-> pp[i], d2 |-> d2, pos |-> sp.pos,
                                  rotY |-> getSnapRotation(blueprintType, bpPos, piece),
                                  wri |-> sp.wri])
            ELSE SnapScanLast(os, pp, blueprintType, bpPos, i + 1, acc)

\* the scan of updateBlueprintPosition over placedPieces[i..]: the closest
\* compatible piece nearer than snapDistance, first one on a tie
NoSnap(wri) ==
    [piece |-> 0, d2 |-> SnapDistance * SnapDistance, pos |-> Zero3,
     rotY |-> 0, wri |-> wri]

RECURSIVE SnapScan(_, _, _, _, _, _)
SnapScan(os, pp, blueprintType, bpPos, i, acc) ==
    IF i > Len(pp) THEN acc
    ELSE LET piece == os[pp[i]]
             d2 == Dist2(bpPos, piece.pos)
         IN IF canSnapTo(blueprintType, piece.buildingType) /\ d2 < acc.d2
            THEN LET sp == getSnapPosition(blueprintType, bpPos, piece, acc.wri)
                 IN SnapScan(os, pp, blueprintType, bpPos, i + 1,
                             [piece |-> pp[i], d2 |-> d2, pos |-> sp.pos,
                              rotY |-> getSnapRotation(blueprintType, bpPos, piece),
                              wri |-> sp.wri])
            ELSE SnapScan(os, pp, blueprintType, bpPos, i + 1, acc)

(***************************************************************************)
(* Wall carpentry                                                          *)
(***************************************************************************)
\* carpentry that also makes a segment on a side without slack
OpeningSegmentsLoose(t, local) ==
    LET size == getPieceSize(t)
        wallSize == getPieceSize("wall")
        hw == Half(wallSize.x)
        hh == Half(wallSize.y)
        topHeight == hh - (local.y + Half(size.y))
        bottomHeight == local.y - Half(size.y) + hh
        leftWidth == local.x - Half(size.x) + hw
        rightWidth == hw - (local.x + Half(size.x))
        top == IF local.y + Half(size.y) <= hh
               THEN <<Segment("top", Vec(0, hh - Half(topHeight), 0),
                              wallSize.x, topHeight)>>
               ELSE <<>>
        bottom == IF t = "window" /\ local.y - Half(size.y) >= -hh
                  THEN <<Segment("bottom", Vec(0, Half(bottomHeight) - hh, 0),
                                 wallSize.x, bottomHeight)>>
                  ELSE <<>>
        left == IF local.x - Half(size.x) >= -hw
                THEN <<Segment("left", Vec(Half(leftWidth) - hw, 0, 0),
                               leftWidth, wallSize.y)>>
                ELSE <<>>
        right == IF local.x + Half(size.x) <= hw
                 THEN <<Segment("right", Vec(hw - Half(rightWidth), 0, 0),
                                rightWidth, wallSize.y)>>
                 ELSE <<>>
    IN top \o bottom \o left \o right

\* the segments createWindowOpening / createDoorOpening put around an
\* opening at local, in the order top, bottom, left, right
OpeningSegments(t, local) ==
    LET size == getPieceSize(t)
        wallSize == getPieceSize("wall")
        hw == Half(wallSize.x)
        hh == Half(wallSize.y)
        topHeight == hh - (local.y + Half(size.y))
        bottomHeight == local.y - Half(size.y) + hh
        leftWidth == local.x - Half(size.x) + hw
        rightWidth == hw - (local.x + Half(size.x))
        top == IF local.y + Half(size.y) < hh
               THEN <<Segment("top", Vec(0, hh - Half(topHeight), 0),
                              wallSize.x, topHeight)>>
               ELSE <<>>
        bottom == IF t = "window" /\ local.y - Half(size.y) > -hh
                  THEN <<Segment("bottom", Vec(0, Half(bottomHeight) - hh, 0),
                                 wallSize.x, bottomHeight)>>
                  ELSE <<>>
        left == IF local.x - Half(size.x) > -hw
                THEN <<Segment("left", Vec(Half(leftWidth) - hw, 0, 0),
                               leftWidth, wallSize.y)>>
                ELSE <<>>
        right == IF local.x + Half(size.x) < hw
                 THEN <<Segment("right", Vec(hw - Half(rightWidth), 0, 0),
                                rightWidth, wallSize.y)>>
                 ELSE <<>>
    IN top \o bottom \o left \o right

\* carpentry that cuts whatever piece it is given
CreateOpeningAny(os, sc, pp, wall, position, t) ==
    IF wall = NoRef
    THEN [objs |-> os, scene |-> sc, placedPieces |-> pp, group |-> 0]
    ELSE LET originalPosition == RefPos(os, wall)
             originalRotation == RefRotY(os, wall)
             local == RotY(VSub(position, originalPosition), -originalRotation)
             wallGroup ==
                 [kind |-> "group", ghost |-> FALSE,
                  buildingType |-> RefType(os, wall),
                  frame |-> NoType, pos |-> originalPosition,
                  rotY |-> originalRotation, isCollidable |-> TRUE,
                  targetWall |-> NoRef, segs |-> OpeningSegments(t, local)]
             id == Alloc(os)
             sc1 == IF wall.seg = 0 THEN sc \ {wall.obj} ELSE sc
             wallIndex == IF wall.seg = 0 THEN IndexOf(pp, wall.obj) ELSE 0
         IN [objs |-> New(os, wallGroup),
             scene |-> sc1 \cup {id},
             placedPieces |-> IF wallIndex # 0
                              THEN [pp EXCEPT ![wallIndex] = id] ELSE pp,
             group |-> id]

\* createWindowOpening(wall, position) / createDoorOpening(wall, position):
\* the nodes, the scene and placedPieces after the call; group is the node
\* returned, 0 when the call returns without one
CreateOpening(os, sc, pp, wall, position, t) ==
    IF wall = NoRef \/ RefType(os, wall) # "wall"
    THEN [objs |-> os, scene |-> sc, placedPieces |-> pp, group |-> 0]
    ELSE LET originalPosition == RefPos(os, wall)
             originalRotation == RefRotY(os, wall)
             local == RotY(VSub(position, originalPosition), -originalRotation)
             wallGroup ==
                 [kind |-> "group", ghost |-> FALSE, buildingType |-> "wall",
                  frame |-> NoType, pos |-> originalPosition,
                  rotY |-> originalRotation, isCollidable |-> TRUE,
                  targetWall |-> NoRef, segs |-> OpeningSegments(t, local)]
             id == Alloc(os)
             \* scene.remove(wall) removes a direct child of the scene only
             sc1 == IF wall.seg = 0 THEN sc \ {wall.obj} ELSE sc
             wallIndex == IF wall.seg = 0 THEN IndexOf(pp, wall.obj) ELSE 0
         IN [objs |-> New(os, wallGroup),
             scene |-> sc1 \cup {id},
             placedPieces |-> IF wallIndex # 0
                              THEN [pp EXCEPT ![wallIndex] = id] ELSE pp,
             group |-> id]

(***************************************************************************)
(* BuildingSystem operations                                               *)
(***************************************************************************)
\* currentBlueprint is overwritten without a scene.remove: the old ghost
\* stays in the scene, and as nothing refers to it any more its pose is no
\* longer tracked
Orphan(os, b) == IF b # 0 THEN [os EXCEPT ![b] = NewBlueprint] ELSE os

\* a test that asks for more logs than the piece costs
CanAffordStrict(type) == logCount > costs[type]

\* the test of startBuilding
CanAfford(type) == logCount >= costs[type]

startBuilding(type) ==
    /\ UNCHANGED Pure
    /\ IF CanAfford(type)
       THEN /\ Alloc(objs) # 0
            /\ Cardinality(Ghosts) < MaxGhosts
            /\ buildingType' = type
            /\ isBuilding' = TRUE
            /\ objs' = New(Orphan(objs, currentBlueprint), NewBlueprint)
            /\ currentBlueprint' = Alloc(objs)
            /\ scene' = scene \cup {Alloc(objs)}
            /\ lastCall' = Call("startBuilding", FALSE, FALSE)
            /\ UNCHANGED <<slots, unlimitedLogs, wallRotationIndex, isSnapping,
                           placedPieces>>
       ELSE /\ lastCall' = Call("startBuilding", FALSE, TRUE)
            /\ UNCHANGED <<slots, unlimitedLogs, isBuilding, currentBlueprint,
                           buildingType, wallRotationIndex, isSnapping, objs,
                           scene, placedPieces>>

\* the yaw a wall ghost takes from the camera for a rotation index
WallYaw(camYaw, wri) == IF wri = 0 \/ wri = 2 THEN camYaw ELSE camYaw + 90

\* the pose the resolver gives the ghost before snapping
FreePose(bp, tp, camYaw, ground, hit) ==
    LET pos == IF ground.hit THEN Vec(tp.x, ground.y, tp.z)
               ELSE Vec(tp.x, 0, tp.z)
    IN CASE buildingType = "wall" ->
              [bp EXCEPT !.pos = Vec(pos.x, pos.y + WallHalfHeight, pos.z),
                         !.rotY = WallYaw(camYaw, wallRotationIndex)]
         [] buildingType = "roof" ->
              [bp EXCEPT !.pos = Vec(pos.x, pos.y + RoofOffset, pos.z)]
         [] buildingType \in {"window", "door"} ->
              IF hit # NoHit
              THEN LET wallPos == RefPos(objs, hit.ref)
                       wallSize == getPieceSize("wall")
                       doorSize == getPieceSize("door")
                       y == IF buildingType = "window"
                            THEN IF 3 * Abs(hit.point.y - wallPos.y) > wallSize.y
                                 THEN wallPos.y ELSE hit.point.y
                            ELSE wallPos.y - Half(wallSize.y) + Half(doorSize.y)
                       p == Vec(hit.point.x, y, hit.point.z)
                       n == hit.normal
                       \* Plane.projectPoint on the plane through the wall's
                       \* position with the face normal
                       d == n.x * (p.x - wallPos.x) + n.y * (p.y - wallPos.y)
                            + n.z * (p.z - wallPos.z)
                   IN [bp EXCEPT !.pos = Vec(p.x - d * n.x, p.y - d * n.y,
                                             p.z - d * n.z),
                                 !.rotY = RefRotY(objs, hit.ref),
                                 !.targetWall = hit.ref]
              ELSE [bp EXCEPT !.pos = Vec(tp.x, tp.y + WallHalfHeight, tp.z),
                              !.rotY = camYaw,
                              !.targetWall = NoRef]
         [] OTHER -> [bp EXCEPT !.pos = pos]

updateBlueprintPosition(tp, camYaw, ground, hit) ==
    /\ UNCHANGED Pure
    /\ lastCall' = Call("updateBlueprintPosition", FALSE, FALSE)
    /\ IF ~isBuilding \/ currentBlueprint = 0
       THEN UNCHANGED <<slots, unlimitedLogs, isBuilding, currentBlueprint,
                        buildingType, wallRotationIndex, isSnapping, objs,
                        scene, placedPieces>>
       ELSE LET free == FreePose(objs[currentBlueprint], tp, camYaw, ground, hit)
                snap == SnapScan(objs, placedPieces, buildingType, free.pos, 1,
                                 NoSnap(wallRotationIndex))
            IN /\ isSnapping' = (snap.piece # 0)
               /\ wallRotationIndex' = snap.wri
               /\ objs' = [objs EXCEPT ![currentBlueprint] =
                              IF snap.piece # 0
                              THEN [free EXCEPT !.pos = snap.pos,
                                                !.rotY = snap.rotY]
                              ELSE free]
               /\ UNCHANGED <<slots, unlimitedLogs, isBuilding,
                              currentBlueprint, buildingType, scene,
                              placedPieces>>

rotateWall(camYaw) ==
    /\ UNCHANGED Pure
    /\ lastCall' = Call("rotateWall", FALSE, FALSE)
    /\ IF ~isBuilding \/ currentBlueprint = 0 \/ buildingType # "wall"
       THEN UNCHANGED <<slots, unlimitedLogs, isBuilding, currentBlueprint,
                        buildingType, wallRotationIndex, isSnapping, objs,
                        scene, placedPieces>>
       ELSE /\ wallRotationIndex' = (wallRotationIndex + 1) % 4
            /\ objs' = [objs EXCEPT ![currentBlueprint].rotY =
                           WallYaw(camYaw, (wallRotationIndex + 1) % 4)]
            /\ UNCHANGED <<slots, unlimitedLogs, isBuilding, currentBlueprint,
                           buildingType, isSnapping, scene, placedPieces>>

\* build() on a window or door ghost whose targetWall is set: the opening
\* is cut, the frame is added to the scene and to placedPieces, and then
\* `targetWall = updatedWall` assigns to a const binding: a TypeError
\* leaves build() before the debit and the teardown
BuildOpening(maxPieces) ==
    LET bp == objs[currentBlueprint]
        cut == CreateOpening(objs, scene, placedPieces, bp.targetWall, bp.pos,
                             buildingType)
        frameId == Alloc(cut.objs)
    IN /\ Len(placedPieces) < maxPieces
       /\ Alloc(objs) # 0 /\ frameId # 0
       /\ objs' = New(cut.objs, NewFrame(buildingType, bp.pos, bp.rotY))
       /\ scene' = cut.scene \cup {frameId}
       /\ placedPieces' = Append(cut.placedPieces, frameId)
       /\ lastCall' = Call("build", TRUE, FALSE)
       /\ UNCHANGED <<slots, unlimitedLogs, isBuilding, currentBlueprint,
                      buildingType, wallRotationIndex, isSnapping>>

\* build() on a wall, foundation or roof ghost
BuildPiece(maxPieces) ==
    LET bp == objs[currentBlueprint]
        id == Alloc(objs)
    IN /\ Len(placedPieces) < maxPieces
       /\ id # 0
       /\ objs' = [New(objs, NewPiece(buildingType, bp.pos, bp.rotY))
                     EXCEPT ![currentBlueprint] = Free]
       /\ scene' = (scene \cup {id}) \ {currentBlueprint}
       /\ placedPieces' = Append(placedPieces, id)
       /\ slots' = Debit(slots, unlimitedLogs, costs[buildingType])
       /\ currentBlueprint' = 0
       /\ isBuilding' = FALSE
       /\ buildingType' = NoType
       /\ wallRotationIndex' = 0
       /\ lastCall' = Call("build", FALSE, FALSE)
       /\ UNCHANGED <<unlimitedLogs, isSnapping>>

\* a build() without the test of targetWall
HasTargetAlways == TRUE

\* the window/door ghost has a wall to go on
HasTarget == objs[currentBlueprint].targetWall # NoRef

build(maxPieces) ==
    /\ UNCHANGED Pure
    /\ IF ~isBuilding \/ currentBlueprint = 0
       THEN /\ lastCall' = Call("build", FALSE, FALSE)
            /\ UNCHANGED <<slots, unlimitedLogs, isBuilding, currentBlueprint,
                           buildingType, wallRotationIndex, isSnapping, objs,
                           scene, placedPieces>>
       ELSE IF buildingType \in {"window", "door"}
            THEN IF ~HasTarget
                 THEN /\ lastCall' = Call("build", FALSE, FALSE)
                      /\ UNCHANGED <<slots, unlimitedLogs, isBuilding,
                                     currentBlueprint, buildingType,
                                     wallRotationIndex, isSnapping, objs, scene,
                                     placedPieces>>
                 ELSE BuildOpening(maxPieces)
            ELSE BuildPiece(maxPieces)

\* the state as one record, and cancelBuilding() as a function of it
State ==
    [slots |-> slots, unlimitedLogs |-> unlimitedLogs,
     isBuilding |-> isBuilding, currentBlueprint |-> currentBlueprint,
     buildingType |-> buildingType, wallRotationIndex |-> wallRotationIndex,
     isSnapping |-> isSnapping, objs |-> objs, scene |-> scene,
     placedPieces |-> placedPieces, lastCall |-> lastCall]

\* a cancelBuilding() that flips the placing flag instead of clearing it
CancelledToggle(st) ==
    [st EXCEPT
        !.scene = IF st.currentBlueprint # 0
                  THEN @ \ {st.currentBlueprint} ELSE @,
        !.objs = IF st.currentBlueprint # 0
                 THEN [@ EXCEPT ![st.currentBlueprint] = Free] ELSE @,
        !.currentBlueprint = 0,
        !.isBuilding = ~@,
        !.buildingType = NoType,
        !.wallRotationIndex = 0,
        !.lastCall = Call("cancelBuilding", FALSE, FALSE)]

Cancelled(st) ==
    [st EXCEPT
        !.scene = IF st.currentBlueprint # 0
                  THEN @ \ {st.currentBlueprint} ELSE @,
        !.objs = IF st.currentBlueprint # 0
                 THEN [@ EXCEPT ![st.currentBlueprint] = Free] ELSE @,
        !.currentBlueprint = 0,
        !.isBuilding = FALSE,
        !.buildingType = NoType,
        !.wallRotationIndex = 0,
        !.lastCall = Call("cancelBuilding", FALSE, FALSE)]

\* the cancelBuilding() of the file's older class, which leaves
\* wallRotationIndex alone
cancelBuildingOld ==
    LET c == Cancelled(State)
    IN /\ slots' = c.slots
       /\ unlimitedLogs' = c.unlimitedLogs
       /\ isBuilding' = c.isBuilding
       /\ currentBlueprint' = c.currentBlueprint
       /\ buildingType' = c.buildingType
       /\ wallRotationIndex' = wallRotationIndex
       /\ isSnapping' = c.isSnapping
       /\ objs' = c.objs
       /\ scene' = c.scene
       /\ placedPieces' = c.placedPieces
       /\ lastCall' = c.lastCall
       /\ UNCHANGED Pure

cancelBuilding ==
    LET c == Cancelled(State)
    IN /\ slots' = c.slots
       /\ unlimitedLogs' = c.unlimitedLogs
       /\ isBuilding' = c.isBuilding
       /\ currentBlueprint' = c.currentBlueprint
       /\ buildingType' = c.buildingType
       /\ wallRotationIndex' = c.wallRotationIndex
       /\ isSnapping' = c.isSnapping
       /\ objs' = c.objs
       /\ scene' = c.scene
       /\ placedPieces' = c.placedPieces
       /\ lastCall' = c.lastCall
       /\ UNCHANGED Pure

(***************************************************************************)
(* Player movement (src/unnamed/part_004)                                  *)
(***************************************************************************)
\* the meshes createWindowFrame / createDoorFrame add to the frame group;
\* the flags isWindowFrame / isDoorFrame, and the tags of build(), go on the
\* group, the meshes keep an empty userData
FrameMembers(t) ==
    IF t = "door" THEN <<"top", "left", "right", "door">>
    ELSE <<"top", "bottom", "left", "right", "glass">>

\* userData.isDoorFrame || userData.isDoor of the object of a reference
DoorFlag(os, r) == r.seg = 0 /\ os[r.obj].frame = "door"

\* intersectObjects(placedPieces, true) reports meshes, never groups: the
\* plain pieces, the segments of composite walls, the members of frames
MeshesOf(os, i) ==
    CASE os[i].kind = "mesh" -> {Ref(i, 0)}
      [] os[i].kind = "group" /\ os[i].frame = NoType ->
            {Ref(i, k) : k \in 1..Len(os[i].segs)}
      [] os[i].kind = "group" /\ os[i].frame # NoType ->
            {Ref(i, k) : k \in 1..Len(FrameMembers(os[i].frame))}
      [] OTHER -> {}
\* what the mesh is part of: a door, a window, or a wall, foundation, roof
PartOf(os, r) == os[r.obj].buildingType
HitDistances == {50, 500}
Intersections ==
    {[object |-> r, partOf |-> PartOf(objs, r), skipped |-> DoorFlag(objs, r),
      distance |-> d] :
        r \in UNION {MeshesOf(objs, i) : i \in Range(placedPieces)},
        d \in HitDistances}
HitLists == UNION {[1..n -> Intersections] : n \in 0..MaxHits}

\* the loop of checkCollision over the intersections from the k-th on
RECURSIVE Collides(_, _, _)
Collides(intersects, distance, k) ==
    IF k > Len(intersects) THEN FALSE
    ELSE IF intersects[k].skipped THEN Collides(intersects, distance, k + 1)
    ELSE IF intersects[k].distance < distance + CollisionThreshold THEN TRUE
    ELSE Collides(intersects, distance, k + 1)

checkCollision(intersects, distance) ==
    /\ args' = [fn |-> "checkCollision", intersects |-> intersects,
                distance |-> distance]
    /\ result' = [fn |-> "checkCollision",
                  value |-> IF Len(placedPieces) = 0 THEN FALSE
                            ELSE Collides(intersects, distance, 1)]
    /\ UNCHANGED <<slots, unlimitedLogs, isBuilding, currentBlueprint,
                   buildingType, wallRotationIndex, isSnapping, objs, scene,
                   placedPieces, lastCall>>

(***************************************************************************)
(* The ledger's other callers                                              *)
(***************************************************************************)
\* Terminal.unlimitedLogs: toggles the cheat, ten logs on enabling
unlimitedLogsCommand ==
    /\ UNCHANGED Pure
    /\ unlimitedLogs' = ~unlimitedLogs
    /\ IF ~unlimitedLogs
       THEN /\ SumFrom(addItem(slots, "log", CheatLogs), "log", 1) <= MaxLogs
            /\ slots' = addItem(slots, "log", CheatLogs)
       ELSE slots' = slots
    /\ lastCall' = Call("unlimitedLogs", FALSE, FALSE)
    /\ UNCHANGED <<isBuilding, currentBlueprint, buildingType,
                   wallRotationIndex, isSnapping, objs, scene, placedPieces>>

(***************************************************************************)
(* The page's key handlers and frame loop (src/unnamed/part_004)           *)
(***************************************************************************)
\* the watchdog's limit on a window ghost, in milliseconds
Timeout == 10000

\* the building system's variables take the values of the record c
SetProgram(c) ==
    /\ slots' = c.slots
    /\ unlimitedLogs' = c.unlimitedLogs
    /\ isBuilding' = c.isBuilding
    /\ currentBlueprint' = c.currentBlueprint
    /\ buildingType' = c.buildingType
    /\ wallRotationIndex' = c.wallRotationIndex
    /\ isSnapping' = c.isSnapping
    /\ objs' = c.objs
    /\ scene' = c.scene
    /\ placedPieces' = c.placedPieces
    /\ lastCall' = c.lastCall

\* forceCleanupAllBlueprints(): cancelBuilding(), after which
\* currentBlueprint is null and the second removal is skipped; the caller
\* lowers forceCleanupBlueprint
forceCleanupAllBlueprints(st) == Cancelled(st)

\* the two keydown listeners of Escape: the global one raises the flag, the
\* one of onKeyDown raises it too and cancels a placement
Escape ==
    /\ forceCleanupBlueprint' = TRUE
    /\ SetProgram(IF isBuilding THEN Cancelled(State) ELSE State)
    /\ UNCHANGED <<blueprintCreationTime, buildingMenuOpen, now, ghostSince,
                   ghostAfterEscape, frameRan>>
    /\ UNCHANGED Pure

\* onKeyDown, KeyB: a ghost is cleaned away, then the menu is toggled
KeyB ==
    LET c == IF currentBlueprint # 0
             THEN forceCleanupAllBlueprints(State) ELSE State
    IN /\ SetProgram(c)
       /\ forceCleanupBlueprint' =
              IF currentBlueprint # 0 THEN FALSE ELSE forceCleanupBlueprint
       /\ buildingMenuOpen' =
              IF buildingMenuOpen THEN FALSE
              ELSE IF ~c.isBuilding THEN TRUE ELSE buildingMenuOpen
       /\ UNCHANGED <<blueprintCreationTime, now, ghostSince, ghostAfterEscape,
                      frameRan>>
       /\ UNCHANGED Pure

\* the key listener of the open menu: startBuilding(type), which on success
\* calls hideBuildingMenu()
MenuKey(type) ==
    /\ buildingMenuOpen
    /\ startBuilding(type)
    /\ IF CanAfford(type)
       THEN /\ buildingMenuOpen' = FALSE
            /\ ghostSince' = now
            /\ ghostAfterEscape' = forceCleanupBlueprint
       ELSE UNCHANGED <<buildingMenuOpen, ghostSince, ghostAfterEscape>>
    /\ UNCHANGED <<forceCleanupBlueprint, blueprintCreationTime, now,
                   frameRan>>

\* the head of animate(): the Escape flag, the orphaned ghost, the window
\* watchdog. st is the building system, flag forceCleanupBlueprint, stamp
\* blueprintCreationTime, clock Date.now(); since is not read
FrameCleanup(st, flag, stamp, clock, since) ==
    LET s1 == IF flag THEN forceCleanupAllBlueprints(st) ELSE st
        orphan == ~s1.isBuilding /\ s1.currentBlueprint # 0
        s2 == IF orphan THEN forceCleanupAllBlueprints(s1) ELSE s1
        watched == s2.currentBlueprint # 0 /\ s2.buildingType = "window"
        expired == watched /\ stamp # Null /\ clock - stamp > Timeout
    IN [st |-> IF expired THEN forceCleanupAllBlueprints(s2) ELSE s2,
        cleaned |-> flag \/ orphan \/ expired,
        orphan |-> orphan,
        stamp |-> IF ~watched \/ expired THEN Null
                  ELSE IF stamp = Null THEN clock ELSE stamp]

\* one call of animate(): the cleanup, then updateBlueprintPosition() while
\* a placement is on
Frame(tp, camYaw, ground, hit) ==
    LET f == FrameCleanup(State, forceCleanupBlueprint, blueprintCreationTime,
                          now, ghostSince)
    IN /\ forceCleanupBlueprint' = FALSE
       /\ blueprintCreationTime' = f.stamp
       /\ frameRan' = TRUE
       /\ IF ~f.cleaned /\ isBuilding
          THEN updateBlueprintPosition(tp, camYaw, ground, hit)
          ELSE SetProgram(f.st) /\ UNCHANGED Pure
       /\ UNCHANGED <<buildingMenuOpen, now, ghostSince, ghostAfterEscape>>

(***************************************************************************)
(* Specification                                                           *)
(***************************************************************************)
\* the inventory at the start: a stack of logs
Init ==
    /\ slots = addItem(EmptySlots, "log", MaxInitLogs)
    /\ unlimitedLogs = FALSE
    /\ isBuilding = FALSE
    /\ currentBlueprint = 0
    /\ buildingType = NoType
    /\ wallRotationIndex = 0
    /\ isSnapping = FALSE
    /\ objs = NoObjects
    /\ scene = {}
    /\ placedPieces = <<>>
    /\ lastCall = Call("constructor", FALSE, FALSE)
    /\ PageLoaded
    /\ args = NoArgs
    /\ result = NoResult

StartBuilding == \E type \in BuildingTypes : startBuilding(type)
UpdateBlueprintPosition ==
    \E tp \in TargetPoints, camYaw \in Yaws,
       ground \in GroundHits, hit \in WallHits \cup {NoHit} :
        updateBlueprintPosition(tp, camYaw, ground, hit)
RotateWall == \E camYaw \in Yaws : rotateWall(camYaw)
Build == build(MaxPieces)

Next ==
    \/ StartBuilding /\ UNCHANGED Outside
    \/ UpdateBlueprintPosition /\ UNCHANGED Outside
    \/ RotateWall /\ UNCHANGED Outside
    \/ Build /\ UNCHANGED Outside
    \/ cancelBuilding /\ UNCHANGED Outside

Spec == Init /\ [][Next]_vars

(***************************************************************************)
(* Specification with the terminal's cheat at hand                         *)
(***************************************************************************)
\* five tools and no log: the cheat's ten logs find no slot
FullOfTools ==
    [i \in 1..NumSlots |->
        Item(CASE i = 1 -> "stick" [] i = 2 -> "rock" [] i = 3 -> "string"
               [] i = 4 -> "axe" [] OTHER -> "bow", 1)]

InitCheat ==
    /\ slots \in {addItem(EmptySlots, "log", MaxInitLogs), FullOfTools}
    /\ unlimitedLogs = FALSE
    /\ isBuilding = FALSE
    /\ currentBlueprint = 0
    /\ buildingType = NoType
    /\ wallRotationIndex = 0
    /\ isSnapping = FALSE
    /\ objs = NoObjects
    /\ scene = {}
    /\ placedPieces = <<>>
    /\ lastCall = Call("constructor", FALSE, FALSE)
    /\ PageLoaded
    /\ args = NoArgs
    /\ result = NoResult

BuildCheat == build(MaxCheatPieces)

NextCheat ==
    \/ StartBuilding /\ UNCHANGED Outside
    \/ UpdateBlueprintPosition /\ UNCHANGED Outside
    \/ RotateWall /\ UNCHANGED Outside
    \/ BuildCheat /\ UNCHANGED Outside
    \/ cancelBuilding /\ UNCHANGED Outside
    \/ unlimitedLogsCommand /\ UNCHANGED Outside

SpecCheat == InitCheat /\ [][NextCheat]_vars

(***************************************************************************)
(* Specification with the logs for a foundation and a wall, and with       *)
(* target points on both sides of the snap distance                        *)
(***************************************************************************)
\* camera.position + 3 * cameraDir: over the origin, and 3.708 and 3.709
\* along x, where a wall ghost is 3.9999 and 4.0008 from a foundation at
\* the origin
SnapTargetPoints == {Vec(0, 1700, 0), Vec(3708, 1700, 0), Vec(3709, 1700, 0)}

InitSnap ==
    /\ slots = addItem(EmptySlots, "log", SnapInitLogs)
    /\ unlimitedLogs = FALSE
    /\ isBuilding = FALSE
    /\ currentBlueprint = 0
    /\ buildingType = NoType
    /\ wallRotationIndex = 0
    /\ isSnapping = FALSE
    /\ objs = NoObjects
    /\ scene = {}
    /\ placedPieces = <<>>
    /\ lastCall = Call("constructor", FALSE, FALSE)
    /\ PageLoaded
    /\ args = NoArgs
    /\ result = NoResult

UpdateBlueprintPositionSnap ==
    \E tp \in SnapTargetPoints, camYaw \in Yaws,
       ground \in GroundHits, hit \in WallHits \cup {NoHit} :
        updateBlueprintPosition(tp, camYaw, ground, hit)
BuildSnap == build(MaxSnapPieces)

NextSnap ==
    \/ StartBuilding /\ UNCHANGED Outside
    \/ UpdateBlueprintPositionSnap /\ UNCHANGED Outside
    \/ RotateWall /\ UNCHANGED Outside
    \/ BuildSnap /\ UNCHANGED Outside
    \/ cancelBuilding /\ UNCHANGED Outside

SpecSnap == InitSnap /\ [][NextSnap]_vars

(***************************************************************************)
(* Specification with the logs for a wall and a door, and the player       *)
(* moving among the pieces                                                 *)
(***************************************************************************)
InitDoor ==
    /\ slots = addItem(EmptySlots, "log", DoorInitLogs)
    /\ unlimitedLogs = FALSE
    /\ isBuilding = FALSE
    /\ currentBlueprint = 0
    /\ buildingType = NoType
    /\ wallRotationIndex = 0
    /\ isSnapping = FALSE
    /\ objs = NoObjects
    /\ scene = {}
    /\ placedPieces = <<>>
    /\ lastCall = Call("constructor", FALSE, FALSE)
    /\ PageLoaded
    /\ args = NoArgs
    /\ result = NoResult

BuildDoor == build(MaxDoorPieces)
CheckCollision ==
    \E intersects \in HitLists : checkCollision(intersects, Speed)

NextDoor ==
    \/ StartBuilding /\ UNCHANGED Outside
    \/ UpdateBlueprintPosition /\ UNCHANGED Outside
    \/ RotateWall /\ UNCHANGED Outside
    \/ BuildDoor /\ UNCHANGED Outside
    \/ cancelBuilding /\ UNCHANGED Outside
    \/ CheckCollision /\ UNCHANGED Outside

SpecDoor == InitDoor /\ [][NextDoor]_vars

(***************************************************************************)
(* Specification that starts where two foundations side by side and a wall *)
(* on the edge between them have been placed, in either order, with the    *)
(* logs for one more piece                                                 *)
(***************************************************************************)
\* target points nearer to the first foundation and midway between the two
AnchorTargetPoints == {Vec(500, 1700, 0), Vec(1000, 1700, 0)}

Anchored ==
    /\ slots = addItem(EmptySlots, "log", AnchorInitLogs)
    /\ unlimitedLogs = FALSE
    /\ isBuilding = FALSE
    /\ currentBlueprint = 0
    /\ buildingType = NoType
    /\ wallRotationIndex = 0
    /\ isSnapping = FALSE
    /\ objs = [i \in 1..MaxObjects |->
                  CASE i = 1 -> NewPiece("foundation", Vec(0, 0, 0), 0)
                    [] i = 2 -> NewPiece("wall", Vec(1000, 1500, 0), 90)
                    [] i = 3 -> NewPiece("foundation", Vec(2000, 0, 0), 0)
                    [] OTHER -> Free]
    /\ scene = {1, 2, 3}
    /\ placedPieces \in {<<1, 2, 3>>, <<3, 2, 1>>}
    /\ lastCall = Call("build", FALSE, FALSE)

InitAnchors ==
    /\ Anchored
    /\ PageLoaded
    /\ args = NoArgs
    /\ result = NoResult

UpdateBlueprintPositionAnchors ==
    \E tp \in AnchorTargetPoints, camYaw \in Yaws, ground \in GroundHits,
       hit \in WallHits \cup {NoHit} :
        updateBlueprintPosition(tp, camYaw, ground, hit)

BuildAnchors == build(MaxAnchorPieces)

NextAnchors ==
    \/ StartBuilding /\ UNCHANGED Outside
    \/ UpdateBlueprintPositionAnchors /\ UNCHANGED Outside
    \/ RotateWall /\ UNCHANGED Outside
    \/ BuildAnchors /\ UNCHANGED Outside
    \/ cancelBuilding /\ UNCHANGED Outside

SpecAnchors == InitAnchors /\ [][NextAnchors]_vars

(***************************************************************************)
(* Specification of the page: the menu, the Escape key and the frame loop  *)
(* around the building system, with the clock running                      *)
(***************************************************************************)
MaxTicks == 6

InitLoop == Init

\* the clock moves on; animate(), which requestAnimationFrame calls for
\* every frame of the display, has run since it last did
Tick ==
    /\ now < MaxTicks * TickMs
    /\ frameRan
    /\ now' = now + TickMs
    /\ frameRan' = FALSE
    /\ UNCHANGED <<forceCleanupBlueprint, blueprintCreationTime,
                   buildingMenuOpen, ghostSince, ghostAfterEscape>>
    /\ UNCHANGED <<slots, unlimitedLogs, isBuilding, currentBlueprint,
                   buildingType, wallRotationIndex, isSnapping, objs, scene,
                   placedPieces, lastCall>>
    /\ UNCHANGED Pure

MenuKeys == \E type \in BuildingTypes : MenuKey(type)
Animate ==
    \E tp \in TargetPoints, camYaw \in Yaws, ground \in GroundHits :
        Frame(tp, camYaw, ground, NoHit)

NextLoop ==
    \/ KeyB /\ UNCHANGED DayNight
    \/ MenuKeys /\ UNCHANGED DayNight
    \/ Escape /\ UNCHANGED DayNight
    \/ Animate /\ UNCHANGED DayNight
    \/ Tick /\ UNCHANGED DayNight

SpecLoop == InitLoop /\ [][NextLoop]_vars

(***************************************************************************)
(* Functions called on their own                                           *)
(***************************************************************************)
Program == <<slots, unlimitedLogs, isBuilding, currentBlueprint, buildingType,
             wallRotationIndex, isSnapping, objs, scene, placedPieces,
             lastCall>>

\* the program as constructed, with a stack of logs
Constructed ==
    /\ slots = addItem(EmptySlots, "log", MaxInitLogs)
    /\ unlimitedLogs = FALSE
    /\ isBuilding = FALSE
    /\ currentBlueprint = 0
    /\ buildingType = NoType
    /\ wallRotationIndex = 0
    /\ isSnapping = FALSE
    /\ objs = NoObjects
    /\ scene = {}
    /\ placedPieces = <<>>
    /\ lastCall = Call("constructor", FALSE, FALSE)

\* canSnapTo over the ghost types and the tags of a piece (a piece without
\* a buildingType tag included), in both BuildingSystem classes
Variants == {"strict", "permissive"}
CanSnapArgs ==
    [fn : {"canSnapTo"}, variant : Variants, blueprintType : BuildingTypes,
     pieceType : BuildingTypes \cup {NoType}]

InitCanSnap ==
    /\ Constructed
    /\ PageLoaded
    /\ args \in CanSnapArgs
    /\ result = NoResult

ApplyCanSnapTo ==
    /\ args.fn = "canSnapTo"
    /\ result = NoResult
    /\ result' = [fn |-> "canSnapTo",
                  value |-> IF args.variant = "strict"
                            THEN canSnapTo(args.blueprintType, args.pieceType)
                            ELSE canSnapToPermissive(args.blueprintType,
                                                     args.pieceType)]
    /\ UNCHANGED <<Program, args>>

NextCanSnap == ApplyCanSnapTo /\ UNCHANGED Outside

SpecCanSnap == InitCanSnap /\ [][NextCanSnap]_vars

\* createWindowOpening / createDoorOpening called with any placed piece, or
\* with none, as the wall, where two foundations and a wall stand
CutArgs ==
    [fn : {"createWindowOpening", "createDoorOpening"},
     wall : {NoRef, Ref(1, 0), Ref(2, 0), Ref(3, 0)},
     position : {Vec(1000, 1500, 0), Vec(1000, 1500, 500),
                 Vec(1000, 1500, -500), Vec(1000, 2000, 0)}]

InitCut ==
    /\ Anchored
    /\ PageLoaded
    /\ args \in CutArgs
    /\ result = NoResult

ApplyCreateOpening ==
    /\ args.fn \in {"createWindowOpening", "createDoorOpening"}
    /\ result = NoResult
    /\ LET cut == CreateOpening(objs, scene, placedPieces, args.wall,
                                args.position,
                                IF args.fn = "createWindowOpening"
                                THEN "window" ELSE "door")
       IN /\ cut.group = 0 \/ Alloc(objs) # 0
          /\ objs' = cut.objs
          /\ scene' = cut.scene
          /\ placedPieces' = cut.placedPieces
          /\ result' = [fn |-> args.fn, value |-> cut.group]
    /\ UNCHANGED <<slots, unlimitedLogs, isBuilding, currentBlueprint,
                   buildingType, wallRotationIndex, isSnapping, lastCall, args>>

NextCut == ApplyCreateOpening /\ UNCHANGED Outside

SpecCut == InitCut /\ [][NextCut]_vars

\* the carpentry of createWindowOpening / createDoorOpening over the places
\* the resolver can put an opening on the face of a wall: a window anywhere
\* within a third of the wall's height of its centre, a door at floor level
FaceOffsets == {100 * k : k \in -10..10}
OpeningArgs ==
    {[fn |-> "createOpening", type |-> "window", local |-> Vec(x, y, 0)] :
        x \in FaceOffsets, y \in FaceOffsets}
    \cup {[fn |-> "createOpening", type |-> "door",
            local |-> Vec(x, Half(getPieceSize("door").y)
                             - Half(getPieceSize("wall").y), 0)] :
             x \in FaceOffsets}

InitCarpentry ==
    /\ Constructed
    /\ PageLoaded
    /\ args \in OpeningArgs
    /\ result = NoResult

ApplyOpeningSegments ==
    /\ args.fn = "createOpening"
    /\ result = NoResult
    /\ result' = [fn |-> "createOpening",
                  value |-> OpeningSegments(args.type, args.local)]
    /\ UNCHANGED <<Program, args>>

NextCarpentry == ApplyOpeningSegments /\ UNCHANGED Outside

SpecCarpentry == InitCarpentry /\ [][NextCarpentry]_vars

(***************************************************************************)
(* Specification of the inventory on its own: addItem and removeItem       *)
(* called in any order, as the game's gathering, crafting and lighting do  *)
(***************************************************************************)
MaxCalls == 5
InventoryTypes == {"log", "rock"}
AddCounts == {1, MaxStack}
RemoveCounts == {1, 2, MaxStack - 1}

\* the inventory as constructed: five empty slots
InitInventory ==
    /\ slots = EmptySlots
    /\ unlimitedLogs = FALSE
    /\ isBuilding = FALSE
    /\ currentBlueprint = 0
    /\ buildingType = NoType
    /\ wallRotationIndex = 0
    /\ isSnapping = FALSE
    /\ objs = NoObjects
    /\ scene = {}
    /\ placedPieces = <<>>
    /\ lastCall = Call("constructor", FALSE, FALSE)
    /\ PageLoaded
    /\ args = NoArgs
    /\ result = NoResult

\* the calls made so far
Calls == IF args = NoArgs THEN 0 ELSE args.calls

AddItem ==
    \E type \in InventoryTypes, count \in AddCounts :
        /\ Calls < MaxCalls
        /\ args' = [fn |-> "addItem", type |-> type, count |-> count,
                    before |-> slots, calls |-> Calls + 1]
        /\ slots' = addItem(slots, type, count)
        /\ result' = [fn |-> "addItem", value |-> TRUE]
        /\ UNCHANGED <<unlimitedLogs, isBuilding, currentBlueprint,
                       buildingType, wallRotationIndex, isSnapping, objs,
                       scene, placedPieces, lastCall>>

RemoveItem ==
    \E type \in InventoryTypes, count \in RemoveCounts :
        /\ Calls < MaxCalls
        /\ args' = [fn |-> "removeItem", type |-> type, count |-> count,
                    before |-> slots, calls |-> Calls + 1]
        /\ slots' = removeItem(slots, unlimitedLogs, type, count)
        /\ result' = [fn |-> "removeItem",
                      value |-> removeItemReturns(slots, unlimitedLogs, type)]
        /\ UNCHANGED <<unlimitedLogs, isBuilding, currentBlueprint,
                       buildingType, wallRotationIndex, isSnapping, objs,
                       scene, placedPieces, lastCall>>

NextInventory ==
    \/ AddItem /\ UNCHANGED Outside
    \/ RemoveItem /\ UNCHANGED Outside

SpecInventory == InitInventory /\ [][NextInventory]_vars

(***************************************************************************)
(* DayNightCycle (src/src/dayNightCycle.js) and its specification: the     *)
(* frame loop's update(), setTimeOfDay(), the T key, the pause at the end  *)
(* of the game, and the clock                                              *)
(***************************************************************************)
dayDuration == 120000
nightDuration == 120000
transitionDuration == 30000
MaxPhases == 10
MaxCallbacks == 4

\* the record c after the callback cb, if any, has been invoked
Invoked(c, cb) == [cycle |-> c, called |-> cb]

\* setTimeOfDay(timeOfDay): only 'night' invokes a callback
setTimeOfDay(c, timeOfDay) ==
    CASE timeOfDay = "day" -> Invoked([c EXCEPT !.isNight = FALSE], "none")
      [] timeOfDay = "sunset" -> Invoked([c EXCEPT !.isNight = FALSE], "none")
      [] timeOfDay = "night" ->
            Invoked([c EXCEPT !.isNight = TRUE], "onNightStart")
      [] OTHER -> Invoked(c, "none")

\* update(): the phase is read off the clock; cycleProgress and the phase
\* limits are compared as milliseconds of the cycle
update(c, clock) ==
    LET total == dayDuration + nightDuration
        e == (clock - c.cycleStartTime) % total
        sunsetStart == dayDuration - transitionDuration
        nightStart == dayDuration
        sunriseStart == total - transitionDuration
    IN IF c.isPaused THEN Invoked(c, "none")
       ELSE IF e < sunsetStart
       THEN IF c.isNight
            THEN Invoked([c EXCEPT !.isNight = FALSE,
                                   !.isTransitioning = FALSE], "onNightEnd")
            ELSE Invoked([c EXCEPT !.isTransitioning = FALSE], "none")
       ELSE IF e < nightStart
       THEN IF ~c.isNight /\ e - sunsetStart >= nightStart - sunsetStart
            THEN Invoked([c EXCEPT !.isNight = TRUE,
                                   !.isTransitioning = TRUE], "onNightStart")
            ELSE Invoked([c EXCEPT !.isTransitioning = TRUE], "none")
       ELSE IF e < sunriseStart
       THEN IF ~c.isNight
            THEN Invoked([c EXCEPT !.isNight = TRUE,
                                   !.isTransitioning = FALSE], "onNightStart")
            ELSE Invoked([c EXCEPT !.isTransitioning = FALSE], "none")
       ELSE IF c.isNight /\ e - sunriseStart >= total - sunriseStart
            THEN Invoked([c EXCEPT !.isNight = FALSE,
                                   !.isTransitioning = TRUE], "onNightEnd")
            ELSE Invoked([c EXCEPT !.isTransitioning = TRUE], "none")

\* the object and the record of callbacks after a call
Returns(r) ==
    /\ Len(nightCallbacks) < MaxCallbacks
    /\ dayNightCycle' = r.cycle
    /\ nightCallbacks' = IF r.called = "none" THEN nightCallbacks
                         ELSE Append(nightCallbacks, r.called)
    /\ UNCHANGED Program
    /\ UNCHANGED Pure

\* animate() calls update() in every frame
Update ==
    /\ Returns(update(dayNightCycle, now))
    /\ UNCHANGED Page

SetTimeOfDay ==
    \E timeOfDay \in {"day", "sunset", "night"} :
        /\ Returns(setTimeOfDay(dayNightCycle, timeOfDay))
        /\ UNCHANGED Page

\* onKeyDown, KeyT: day is forced at night, night otherwise
KeyT ==
    /\ Returns(setTimeOfDay(dayNightCycle,
                            IF dayNightCycle.isNight THEN "day" ELSE "night"))
    /\ UNCHANGED Page

\* pause(), called when the player dies
Pause ==
    /\ ~dayNightCycle.isPaused
    /\ dayNightCycle' = [dayNightCycle EXCEPT !.isPaused = TRUE]
    /\ UNCHANGED <<nightCallbacks, Page, Program, Pure>>

\* the clock moves on by the length of a transition
Elapse ==
    /\ now < MaxPhases * transitionDuration
    /\ now' = now + transitionDuration
    /\ UNCHANGED <<forceCleanupBlueprint, blueprintCreationTime,
                   buildingMenuOpen, ghostSince, ghostAfterEscape, frameRan>>
    /\ UNCHANGED <<DayNight, Program, Pure>>

InitDayNight == Init

NextDayNight ==
    \/ Update
    \/ SetTimeOfDay
    \/ KeyT
    \/ Pause
    \/ Elapse

SpecDayNight == InitDayNight /\ [][NextDayNight]_vars

(***************************************************************************)
(* Properties                                                              *)
(***************************************************************************)
\* what the calls leave alone
Ledger == <<slots, unlimitedLogs>>
Placement == <<isBuilding, currentBlueprint, buildingType, wallRotationIndex>>
World == <<objs, scene, placedPieces>>

\* build() is called while a ghost is being placed
BuildsGhost == lastCall'.op = "build" /\ isBuilding /\ currentBlueprint # 0
Structural == {"wall", "foundation", "roof"}
Openings == {"window", "door"}
Idle == ~isBuilding /\ currentBlueprint = 0 /\ Ghosts = {}
Placing == isBuilding /\ currentBlueprint # 0 /\ Ghosts = {currentBlueprint}

\* C1: the scene never holds more than one ghost, whatever the sequence of
\* startBuilding, build and cancelBuilding calls
C1_AtMostOneGhost == Cardinality(Ghosts) <= 1

\* C2: build() never takes the log count below zero, and a build() called
\* with fewer logs than the piece costs places nothing and leaves the
\* balance as it was
C2_BuildChecksBalance ==
    [][BuildsGhost =>
          /\ logCount' >= 0
          /\ \A i \in 1..NumSlots : slots'[i].quantity >= 0
          /\ logCount < costs[buildingType] =>
                placedPieces' = placedPieces /\ logCount' = logCount]_vars

\* C3: startBuilding(type) with fewer logs than the cost changes nothing
\* but the alert; with enough logs it adds exactly one ghost to the scene,
\* makes it the current blueprint of that type and enters the placing state
C3_StartBuilding ==
    [][\A type \in BuildingTypes : startBuilding(type) =>
          IF logCount < costs[type]
          THEN /\ lastCall'.alerted
               /\ UNCHANGED <<Ledger, Placement, World, isSnapping>>
          ELSE /\ ~lastCall'.alerted /\ ~lastCall'.threw
               /\ scene' = scene \cup {currentBlueprint'}
               /\ currentBlueprint' \notin scene
               /\ objs'[currentBlueprint'].ghost
               /\ Ghosts' = Ghosts \cup {currentBlueprint'}
               /\ buildingType' = type
               /\ isBuilding'
               /\ UNCHANGED <<Ledger, placedPieces>>]_vars

C3_Witness ==
    /\ lastCall = Call("startBuilding", FALSE, TRUE)
    /\ logCount = 1
    /\ isBuilding /\ buildingType = "window"
    /\ Ghosts = {currentBlueprint}

\* what C4 says of the scene and of the placing state
PiecePlaced ==
    /\ Len(placedPieces') = Len(placedPieces) + 1
    /\ SubSeq(placedPieces', 1, Len(placedPieces)) = placedPieces
    /\ LET id == placedPieces'[Len(placedPieces')]
       IN /\ id \in scene' \ scene
          /\ ~objs'[id].ghost
          /\ objs'[id].buildingType = buildingType
          /\ objs'[id].pos = objs[currentBlueprint].pos
          /\ objs'[id].rotY = objs[currentBlueprint].rotY
    /\ currentBlueprint \notin scene'
    /\ scene' \ scene = {placedPieces'[Len(placedPieces')]}
    /\ currentBlueprint' = 0
    /\ ~isBuilding'
    /\ ~lastCall'.threw

\* C4 as stated: build() on a wall, foundation or roof ghost takes exactly
\* costs[type] off the log count, appends one piece of the type at the
\* ghost's pose, removes the ghost and leaves the placing state
C4_Original ==
    [][(BuildsGhost /\ buildingType \in Structural) =>
          /\ logCount' = logCount - costs[buildingType]
          /\ PiecePlaced]_vars

\* C4: build() on a wall, foundation or roof ghost appends one piece of
\* the type at the ghost's pose, removes the ghost and leaves the placing
\* state; the log count goes down by exactly costs[type] when the
\* unlimited-logs mode is off and that many logs are held, and stays as it
\* is when the mode is on
C4_BuildStructural ==
    [][(BuildsGhost /\ buildingType \in Structural) =>
          /\ (~unlimitedLogs /\ logCount >= costs[buildingType]) =>
                logCount' = logCount - costs[buildingType]
          /\ unlimitedLogs => logCount' = logCount
          /\ PiecePlaced]_vars

C4_Witness ==
    /\ lastCall = Call("build", FALSE, FALSE)
    /\ ~unlimitedLogs
    /\ logCount = 0
    /\ Len(placedPieces) = 1
    /\ objs[placedPieces[1]].buildingType = "foundation"
    /\ placedPieces[1] \in scene
    /\ Idle

\* C5: build() on a window ghost aimed at a placed wall replaces the wall
\* by a composite of at most four segments, adds a collidable window frame,
\* takes one log, disposes of the ghost and leaves the system idle
C5_WindowCarpentry ==
    [][(/\ BuildsGhost
        /\ buildingType = "window"
        /\ objs[currentBlueprint].targetWall # NoRef
        /\ objs[currentBlueprint].targetWall.seg = 0
        /\ objs[currentBlueprint].targetWall.obj \in Range(placedPieces)) =>
          LET wall == objs[currentBlueprint].targetWall.obj
              i == IndexOf(placedPieces, wall)
              frame == placedPieces'[Len(placedPieces')]
          IN /\ Len(placedPieces') = Len(placedPieces) + 1
             /\ wall \notin scene'
             /\ placedPieces'[i] \in scene'
             /\ objs'[placedPieces'[i]].kind = "group"
             /\ Len(objs'[placedPieces'[i]].segs) \in 1..4
             /\ objs'[frame].frame = "window"
             /\ objs'[frame].isCollidable
             /\ frame \in scene'
             /\ logCount' = logCount - 1
             /\ currentBlueprint \notin scene'
             /\ currentBlueprint' = 0
             /\ ~isBuilding'
             /\ ~lastCall'.threw]_vars

C7_NoThrowConsistent == ~lastCall.threw /\ (Idle \/ Placing)

\* C8: a build() that follows a build() with no frame update in between
\* commits nothing more: placedPieces, the scene and the ledger stay as the
\* first call left them
C8_NoDoubleCommit ==
    [][(lastCall.op = "build" /\ lastCall'.op = "build") =>
          UNCHANGED <<placedPieces, scene, slots>>]_vars

\* C9: cancelBuilding is idempotent: in every state a second call gives
\* the state the first call gave
C9_CancelIdempotent == Cancelled(Cancelled(State)) = Cancelled(State)

C9_Witness ==
    /\ lastCall.op = "cancelBuilding"
    /\ Cancelled(State) = State
    /\ Len(placedPieces) = 2
    /\ scene = Range(placedPieces)

\* C10: cancelBuilding always succeeds: the ghost it was placing is out of
\* the scene, currentBlueprint, isBuilding, buildingType and
\* wallRotationIndex are reset together, and the ledger and placedPieces
\* are as before
C10_CancelTotal ==
    [][lastCall'.op = "cancelBuilding" =>
          /\ currentBlueprint # 0 => currentBlueprint \notin scene'
          /\ scene' = scene \ {currentBlueprint}
          /\ currentBlueprint' = 0
          /\ ~isBuilding'
          /\ buildingType' = NoType
          /\ wallRotationIndex' = 0
          /\ ~lastCall'.threw
          /\ UNCHANGED <<Ledger, placedPieces>>]_vars

C10_Witness ==
    /\ lastCall = Call("cancelBuilding", FALSE, FALSE)
    /\ Idle
    /\ buildingType = NoType /\ wallRotationIndex = 0
    /\ logCount = 1
    /\ Len(placedPieces) = 1
    /\ objs[placedPieces[1]].rotY = 90

\* the pairs the rules list as eligible
Pair(b, p) == [blueprintType |-> b, pieceType |-> p]
ListedPairs(variant) ==
    {Pair("wall", "foundation"), Pair("roof", "foundation"),
     Pair("foundation", "foundation")}
    \cup (IF variant = "permissive" THEN {Pair("wall", "wall")} ELSE {})

\* C11 as stated: in both classes canSnapTo is true only for wall on
\* foundation, roof on foundation, foundation on foundation and, in the
\* permissive class only, wall on wall
C11_Original ==
    (result.fn = "canSnapTo" /\ result.value) =>
        Pair(args.blueprintType, args.pieceType) \in ListedPairs(args.variant)

\* C11: in both classes canSnapTo is true only for wall on foundation, roof
\* on foundation, foundation on foundation and, in the permissive class
\* only, wall on wall and roof on wall; it is false for every other pair
C11_SnapMatrix ==
    (result.fn = "canSnapTo" /\ result.value) =>
        Pair(args.blueprintType, args.pieceType) \in
            ListedPairs(args.variant)
            \cup (IF args.variant = "permissive"
                  THEN {Pair("roof", "wall")} ELSE {})

C11_Witness ==
    /\ result.fn = "canSnapTo"
    /\ args.variant = "permissive"
    /\ args.blueprintType = "roof" /\ args.pieceType = "wall"
    /\ result.value

\* the placed pieces the ghost may snap to
EligibleAnchors ==
    {i \in Range(placedPieces) : canSnapTo(buildingType, objs[i].buildingType)}
TheAnchor == objs[CHOOSE i \in EligibleAnchors : TRUE]
\* where the resolver puts a wall, foundation or roof ghost before snapping
FreePosition(tp, ground) ==
    Vec(tp.x,
        (IF ground.hit THEN ground.y ELSE 0)
        + (CASE buildingType = "wall" -> 1500
             [] buildingType = "roof" -> 3000
             [] OTHER -> 0),
        tp.z)
UpdatesGhost ==
    /\ lastCall'.op = "updateBlueprintPosition"
    /\ isBuilding /\ currentBlueprint # 0

\* C12: with exactly one eligible anchor among the placed pieces,
\* updateBlueprintPosition snaps the ghost when its free position is nearer
\* to the anchor than snapDistance, and leaves it at the free position with
\* isSnapping false when it is farther
C12_SnapThreshold ==
    [][(UpdatesGhost /\ Cardinality(EligibleAnchors) = 1) =>
       \A tp \in SnapTargetPoints, camYaw \in Yaws, ground \in GroundHits,
          hit \in WallHits \cup {NoHit} :
          updateBlueprintPosition(tp, camYaw, ground, hit) =>
             LET free == FreePosition(tp, ground)
                 d2 == Dist2(free, TheAnchor.pos)
             IN /\ d2 < 4000 * 4000 =>
                     /\ isSnapping'
                     /\ objs'[currentBlueprint].pos =
                          getSnapPosition(buildingType, free, TheAnchor,
                                          wallRotationIndex).pos
                /\ d2 > 4000 * 4000 =>
                     /\ ~isSnapping'
                     /\ objs'[currentBlueprint].pos = free]_vars

C12_Witness ==
    /\ lastCall.op = "updateBlueprintPosition"
    /\ isBuilding /\ currentBlueprint # 0
    /\ ~isSnapping
    /\ Cardinality(EligibleAnchors) = 1
    /\ Dist2(objs[currentBlueprint].pos, TheAnchor.pos) > 4000 * 4000
    /\ Dist2(objs[currentBlueprint].pos, TheAnchor.pos) < 4001 * 4001

\* a wall stands on an edge of foundation f: on an x edge turned by 90
\* degrees from the foundation, on a z edge with the foundation's yaw
OnEdge(wall, f) ==
    /\ wall.pos.y = f.pos.y + 100 + 1500 - 100
    /\ \/ /\ wall.pos.x \in {f.pos.x - 1000, f.pos.x + 1000}
          /\ wall.pos.z = f.pos.z
          /\ wall.rotY = f.rotY + 90
       \/ /\ wall.pos.x = f.pos.x
          /\ wall.pos.z \in {f.pos.z - 1000, f.pos.z + 1000}
          /\ wall.rotY = f.rotY

\* C13: a wall ghost within snap range of a foundation snaps to the
\* foundation's edge on the ghost's side, the x edge when |local x| >
\* |local z| and the z edge otherwise; build() then places the wall on the
\* foundation with the foundation's yaw, plus 90 degrees on an x edge, and
\* takes the three logs (3 -> 0)
C13_WallOnFoundation ==
    [][/\ (/\ UpdatesGhost
           /\ buildingType = "wall"
           /\ Cardinality(EligibleAnchors) = 1) =>
          \A tp \in SnapTargetPoints, camYaw \in Yaws, ground \in GroundHits,
             hit \in WallHits \cup {NoHit} :
             (/\ updateBlueprintPosition(tp, camYaw, ground, hit)
              /\ Dist2(FreePosition(tp, ground), TheAnchor.pos) < 4000 * 4000) =>
                LET f == TheAnchor
                    local == RotY(VSub(FreePosition(tp, ground), f.pos), -f.rotY)
                    ghost == objs'[currentBlueprint]
                IN /\ OnEdge(ghost, f)
                   /\ (ghost.pos.x # f.pos.x) <=> (Abs(local.x) > Abs(local.z))
                   /\ local.x > 0 /\ Abs(local.x) > Abs(local.z) =>
                        ghost.pos.x = f.pos.x + 1000
                   /\ local.x < 0 /\ Abs(local.x) > Abs(local.z) =>
                        ghost.pos.x = f.pos.x - 1000
                   /\ local.z > 0 /\ Abs(local.x) <= Abs(local.z) =>
                        ghost.pos.z = f.pos.z + 1000
                   /\ local.z < 0 /\ Abs(local.x) <= Abs(local.z) =>
                        ghost.pos.z = f.pos.z - 1000
       /\ (/\ BuildsGhost
           /\ lastCall.op = "updateBlueprintPosition"
           /\ buildingType = "wall"
           /\ isSnapping) =>
             LET wall == objs'[placedPieces'[Len(placedPieces')]]
             IN /\ Len(placedPieces') = Len(placedPieces) + 1
                /\ wall.buildingType = "wall" /\ ~wall.ghost
                /\ wall.pos = objs[currentBlueprint].pos
                /\ wall.rotY = objs[currentBlueprint].rotY
                /\ \E i \in Range(placedPieces) :
                      objs[i].buildingType = "foundation" /\ OnEdge(wall, objs'[i])
                /\ logCount' = logCount - 3
                /\ logCount = 3 => logCount' = 0]_vars

C13_Witness ==
    /\ lastCall = Call("build", FALSE, FALSE)
    /\ logCount = 0
    /\ Len(placedPieces) = 2
    /\ objs[placedPieces[1]].buildingType = "foundation"
    /\ objs[placedPieces[1]].pos = Vec(0, 0, 0)
    /\ objs[placedPieces[2]].buildingType = "wall"
    /\ objs[placedPieces[2]].pos = Vec(1000, 1500, 0)
    /\ objs[placedPieces[2]].rotY = objs[placedPieces[1]].rotY + 90

\* the face of the wall in squares of 0.1 by 0.1, each named by its lower
\* left corner
Squares == {Vec(100 * i, 100 * j, 0) : i \in -10..9, j \in -15..14}
\* the rectangle of centre c, width w and height h holds the square
Holds(c, w, h, sq) ==
    /\ 2 * c.x - w <= 2 * sq.x /\ 2 * (sq.x + 100) <= 2 * c.x + w
    /\ 2 * c.y - h <= 2 * sq.y /\ 2 * (sq.y + 100) <= 2 * c.y + h
InOpening(sq) ==
    Holds(args.local, getPieceSize(args.type).x, getPieceSize(args.type).y, sq)
SegmentsOn(sq) ==
    {k \in 1..Len(result.value) :
        Holds(result.value[k].pos, result.value[k].w, result.value[k].h, sq)}
Cut == result.fn = "createOpening"
SegmentNames == {result.value[k].name : k \in 1..Len(result.value)}
\* the opening lies within the face of the wall, clear of its edges
FullyInside ==
    /\ Abs(2 * args.local.x) + getPieceSize(args.type).x < getPieceSize("wall").x
    /\ Abs(2 * args.local.y) + getPieceSize(args.type).y < getPieceSize("wall").y
FourSegments ==
    /\ Len(result.value) = 4
    /\ [k \in 1..4 |-> result.value[k].name] = <<"top", "bottom", "left", "right">>
    /\ \A k \in 1..4 : result.value[k].w > 0 /\ result.value[k].h > 0
NoGaps == \A sq \in Squares : InOpening(sq) \/ SegmentsOn(sq) # {}
SegmentsClearOfOpening == \A sq \in Squares : InOpening(sq) => SegmentsOn(sq) = {}
NoOverlap == \A sq \in Squares : Cardinality(SegmentsOn(sq)) <= 1

\* C14: for a window opening fully inside a plain wall, createWindowOpening
\* makes exactly the four segments top, bottom, left and right, each of
\* positive extents, and the segments and the opening make up the face of
\* the wall without a gap and without two segments overlapping
C14_Carpentry ==
    (Cut /\ args.type = "window" /\ FullyInside) =>
        /\ FourSegments
        /\ NoGaps
        /\ SegmentsClearOfOpening
        /\ NoOverlap

\* the slack between the opening's edge and the wall's edge on a side
Slack(side) ==
    LET size == getPieceSize(args.type)
        wallSize == getPieceSize("wall")
    IN CASE side = "top" -> wallSize.y - (2 * args.local.y + size.y)
         [] side = "bottom" -> 2 * args.local.y - size.y + wallSize.y
         [] side = "left" -> 2 * args.local.x - size.x + wallSize.x
         [] side = "right" -> wallSize.x - (2 * args.local.x + size.x)

\* C15: createWindowOpening and createDoorOpening make the top, left and
\* right segment, and for a window the bottom segment, exactly when the
\* slack on that side is positive; a door never gets a bottom segment, and
\* a door that reaches both side edges of the wall gets the top segment only
C15_SegmentsBySlack ==
    Cut =>
        /\ \A side \in {"top", "left", "right"} :
              side \in SegmentNames <=> Slack(side) > 0
        /\ "bottom" \in SegmentNames <=>
              (args.type = "window" /\ Slack("bottom") > 0)
        /\ args.type = "door" => "bottom" \notin SegmentNames
        /\ (args.type = "door" /\ Slack("left") <= 0 /\ Slack("right") <= 0) =>
              SegmentNames = {"top"}
        /\ Len(result.value) = Cardinality(SegmentNames)

C15_Witness ==
    /\ Cut
    /\ args.type = "door"
    /\ Slack("right") = 0
    /\ [k \in 1..Len(result.value) |-> result.value[k].name] = <<"top", "left">>

\* the frames build() has committed
Frames(t) == {i \in scene \cup Range(placedPieces) : objs[i].frame = t}

\* C16: in every reachable state a door frame committed by build() is
\* flagged isCollidable = false and a committed window frame is flagged
\* isCollidable = true
C16_FrameFlags ==
    /\ \A i \in Frames("door") : ~objs[i].isCollidable
    /\ \A i \in Frames("window") : objs[i].isCollidable

C16_Witness ==
    \E i \in Range(placedPieces) :
        /\ objs[i].frame = "door"
        /\ objs[i].buildingType = "door"
        /\ ~objs[i].ghost
        /\ i \in scene

\* C17: checkCollision never answers true when every intersection of the
\* movement rays is with a member of a door frame (top, left, right) or with
\* the door panel
C17_DoorNeverBlocks ==
    (/\ result.fn = "checkCollision"
     /\ Len(args.intersects) > 0
     /\ \A k \in 1..Len(args.intersects) : args.intersects[k].partOf = "door") =>
        ~result.value

\* C18: build() commits no piece on top of a placed one: no two placed
\* pieces have the same type, the same position and the same rotation
C18_NoDuplicatePlacement ==
    \A i, j \in 1..Len(placedPieces) :
        (/\ i # j
         /\ objs[placedPieces[i]].buildingType = objs[placedPieces[j]].buildingType
         /\ objs[placedPieces[i]].pos = objs[placedPieces[j]].pos) =>
            objs[placedPieces[i]].rotY # objs[placedPieces[j]].rotY

PlacingWall == isBuilding /\ currentBlueprint # 0 /\ buildingType = "wall"

\* C19: rotateWall() changes nothing unless a wall ghost is being placed;
\* for a wall ghost it advances the rotation index by one step of four and
\* turns the ghost to the camera's yaw plus 90 degrees times the index, so
\* that four calls bring the rotation back
C19_RotateWall ==
    [][\A camYaw \in Yaws :
          rotateWall(camYaw) =>
             IF PlacingWall
             THEN /\ wallRotationIndex' = (wallRotationIndex + 1) % 4
                  /\ Norm360(objs'[currentBlueprint].rotY) =
                        Norm360(camYaw + 90 * wallRotationIndex')
                  /\ UNCHANGED <<Ledger, isBuilding, currentBlueprint,
                                 buildingType, scene, placedPieces>>
             ELSE UNCHANGED <<Ledger, Placement, World, isSnapping>>]_vars

\* C20: a window or door ghost never snaps to an anchor: after every
\* updateBlueprintPosition isSnapping is false and the ghost has the
\* position and rotation of the surface resolver, on the face of the wall
\* hit with the wall's rotation, or floating in front of the camera with
\* the camera's yaw
C20_OpeningsNeverSnap ==
    [][(UpdatesGhost /\ buildingType \in Openings) =>
       \A tp \in TargetPoints, camYaw \in Yaws, ground \in GroundHits,
          hit \in WallHits \cup {NoHit} :
          updateBlueprintPosition(tp, camYaw, ground, hit) =>
             LET ghost == objs'[currentBlueprint]
                 resolved == FreePose(objs[currentBlueprint], tp, camYaw,
                                      ground, hit)
             IN /\ ~isSnapping'
                /\ ghost.pos = resolved.pos
                /\ ghost.rotY = resolved.rotY
                /\ IF hit = NoHit
                   THEN /\ ghost.pos = Vec(tp.x, tp.y + 1500, tp.z)
                        /\ ghost.rotY = camYaw
                   ELSE LET wallPos == RefPos(objs, hit.ref)
                        IN /\ ghost.rotY = RefRotY(objs, hit.ref)
                           /\ hit.normal.x * (ghost.pos.x - wallPos.x)
                              + hit.normal.y * (ghost.pos.y - wallPos.y)
                              + hit.normal.z * (ghost.pos.z - wallPos.z) = 0]_vars

C20_Witness ==
    /\ lastCall.op = "updateBlueprintPosition"
    /\ isBuilding /\ currentBlueprint # 0
    /\ buildingType \in Openings
    /\ ~isSnapping
    /\ objs[currentBlueprint].targetWall # NoRef
    /\ \E i \in Range(placedPieces) :
          /\ objs[i].buildingType = "wall"
          /\ Dist2(objs[currentBlueprint].pos, objs[i].pos) < 2500 * 2500

\* the places in placedPieces of the eligible anchors nearer to free than
\* snapDistance, and the nearest of them, the earliest when several are
InRange(free) ==
    {k \in 1..Len(placedPieces) :
        /\ canSnapTo(buildingType, objs[placedPieces[k]].buildingType)
        /\ Dist2(free, objs[placedPieces[k]].pos) < 4000 * 4000}
Nearest(free) ==
    CHOOSE k \in InRange(free) :
        \A j \in InRange(free) :
            \/ Dist2(free, objs[placedPieces[k]].pos)
                  < Dist2(free, objs[placedPieces[j]].pos)
            \/ /\ Dist2(free, objs[placedPieces[k]].pos)
                    = Dist2(free, objs[placedPieces[j]].pos)
               /\ k <= j

\* C21: updateBlueprintPosition snaps the ghost to the eligible anchor
\* nearest to the ghost's unsnapped position, the earliest in placedPieces
\* when several are equally near, with the pose computed from the unsnapped
\* position; the pieces that are not eligible play no part
C21_NearestAnchor ==
    [][(UpdatesGhost /\ buildingType \in Structural) =>
       \A tp \in AnchorTargetPoints, camYaw \in Yaws, ground \in GroundHits :
          \* the view ray's wall hit plays no part for these ghosts
          updateBlueprintPosition(tp, camYaw, ground, NoHit) =>
             LET free == FreePosition(tp, ground)
                 ghost == objs'[currentBlueprint]
             IN IF InRange(free) = {}
                THEN ~isSnapping' /\ ghost.pos = free
                ELSE LET anchor == objs[placedPieces[Nearest(free)]]
                     IN /\ isSnapping'
                        /\ ghost.pos = getSnapPosition(buildingType, free, anchor,
                                                       wallRotationIndex).pos
                        /\ ghost.rotY = getSnapRotation(buildingType, free,
                                                        anchor)]_vars

\* a roof ghost aimed midway between the foundations, under which the wall
\* is the nearest piece, is on the foundation placed first
C21_Witness ==
    /\ lastCall.op = "updateBlueprintPosition"
    /\ isBuilding /\ currentBlueprint # 0
    /\ buildingType = "roof"
    /\ isSnapping
    /\ Len(placedPieces) = 3
    /\ objs[placedPieces[1]].pos = Vec(2000, 0, 0)
    /\ objs[placedPieces[2]].buildingType = "wall"
    /\ objs[placedPieces[3]].pos = Vec(0, 0, 0)
    /\ objs[currentBlueprint].pos.x = 2000
    /\ objs[currentBlueprint].pos.z = 0

\* build() cuts an opening: a window or door ghost with a target wall
CutsOpening ==
    /\ BuildsGhost
    /\ buildingType \in Openings
    /\ objs[currentBlueprint].targetWall # NoRef
\* the mesh of a reference is in the scene graph under sc
InScene(os, sc, r) ==
    /\ r.obj \in sc
    /\ r.seg = 0 \/ r.seg <= Len(os[r.obj].segs)

\* C22: after the carpentry of build() the new composite node stands in
\* placedPieces where the wall it was cut from stood, the list growing by
\* the frame only, and that wall is neither in placedPieces nor in the scene
C22_CompositeReplacesWall ==
    [][CutsOpening =>
          LET wall == objs[currentBlueprint].targetWall
          IN /\ Len(placedPieces') = Len(placedPieces) + 1
             /\ \E g \in scene' \ scene :
                   /\ objs'[g].kind = "group" /\ objs'[g].frame = NoType
                   /\ \E k \in 1..Len(placedPieces) : placedPieces'[k] = g
             /\ ~InScene(objs', scene', wall)
             /\ wall.seg = 0 => wall.obj \notin Range(placedPieces')]_vars

\* the wall meshes in the scene graph: plain walls and segments of
\* composite walls
WallsIn(os, sc) ==
    {Ref(i, 0) : i \in {j \in sc : /\ os[j].kind = "mesh" /\ ~os[j].ghost
                                   /\ os[j].buildingType = "wall"}}
    \cup UNION {{Ref(i, k) : k \in 1..Len(os[i].segs)} : i \in sc}
Along(p, yaw) == IF Norm360(yaw) \in {0, 180} THEN p.x ELSE p.z
Across(p, yaw) == IF Norm360(yaw) \in {0, 180} THEN p.z ELSE p.x
\* the face of wall mesh r reaches into the footprint of the opening of
\* frame f
CoversOpening(os, r, f) ==
    LET c == WorldPos(os, r)
        yaw == WorldYaw(os, r)
        w == IF r.seg = 0 THEN getPieceSize("wall").x ELSE os[r.obj].segs[r.seg].w
        h == IF r.seg = 0 THEN getPieceSize("wall").y ELSE os[r.obj].segs[r.seg].h
        size == getPieceSize(f.buildingType)
    IN /\ Norm360(yaw) % 180 = Norm360(f.rotY) % 180
       /\ Abs(Across(c, yaw) - Across(f.pos, yaw)) < getPieceSize("wall").z
       /\ 2 * Abs(Along(c, yaw) - Along(f.pos, yaw)) < w + size.x
       /\ 2 * Abs(c.y - f.pos.y) < h + size.y
OpeningsKept(os, sc, pp) ==
    \A i \in Range(pp) :
        os[i].frame # NoType =>
            \A r \in WallsIn(os, sc) : ~CoversOpening(os, r, os[i])

\* C23: when build() cuts a further opening into a wall that has one, the
\* target being a segment of the composite wall, the new composite stands
\* at the wall's world position with its rotation, and afterwards no wall
\* segment in the scene reaches into the footprint of an opening cut before
C23_SecondOpening ==
    [][(CutsOpening /\ objs[currentBlueprint].targetWall.seg > 0
                    /\ OpeningsKept(objs, scene, placedPieces)) =>
          LET wall == objs[currentBlueprint].targetWall
          IN /\ \E g \in scene' \ scene :
                   /\ objs'[g].kind = "group" /\ objs'[g].frame = NoType
                   /\ objs'[g].pos = objs[wall.obj].pos
                   /\ objs'[g].rotY = objs[wall.obj].rotY
             /\ \A i \in Range(placedPieces) :
                   objs[i].frame # NoType =>
                      \A r \in WallsIn(objs', scene') :
                          ~CoversOpening(objs', r, objs[i])]_vars

WatchdogFires ==
    /\ currentBlueprint # 0 /\ currentBlueprint' = 0
    /\ ~forceCleanupBlueprint
    /\ blueprintCreationTime # Null /\ blueprintCreationTime' = Null

\* the ghost is gone and the placement state is reset
GhostGone == currentBlueprint = 0 /\ ~isBuilding /\ buildingType = NoType

\* C25: a window ghost that has been active for longer than the timeout is
\* removed, and the placement state reset, by the frame that finds it so,
\* and the watchdog never removes a window ghost that has been active for
\* less than the timeout
C25_WindowWatchdog ==
    [][/\ (\E tp \in TargetPoints, camYaw \in Yaws, ground \in GroundHits :
              Frame(tp, camYaw, ground, NoHit))
          /\ currentBlueprint # 0 /\ buildingType = "window"
          /\ now - ghostSince > Timeout
          => GhostGone'
       /\ WatchdogFires => now - ghostSince >= Timeout]_vars

\* C26: in every state the five operations reach, isBuilding is true exactly
\* when currentBlueprint is set and exactly when buildingType is set, so
\* that a frame, with the Escape flag up or down, does not take the branch
\* for a ghost left behind by a placement that is off
C26_PlacementFlagsAgree ==
    /\ isBuilding <=> currentBlueprint # 0
    /\ isBuilding <=> buildingType # NoType
    /\ \A flag \in BOOLEAN :
          ~FrameCleanup(State, flag, blueprintCreationTime, now,
                        ghostSince).orphan

\* a window or door ghost is still there after build() threw
C26_Witness ==
    /\ lastCall.op = "build" /\ lastCall.threw
    /\ isBuilding /\ currentBlueprint # 0
    /\ buildingType \in {"window", "door"}

\* C27: the frame that acts on the flag of an Escape key press leaves alone
\* a ghost that startBuilding() created after the key was pressed
C27_EscapeSparesLaterGhost ==
    [][(\E tp \in TargetPoints, camYaw \in Yaws, ground \in GroundHits :
              Frame(tp, camYaw, ground, NoHit))
          /\ forceCleanupBlueprint
          /\ currentBlueprint # 0 /\ ghostAfterEscape
          => currentBlueprint' = currentBlueprint /\ isBuilding']_vars

\* C28: every foundation and every roof in placedPieces has yaw zero
C28_FlatPiecesUnturned ==
    \A k \in 1..Len(placedPieces) :
        objs[placedPieces[k]].buildingType \in {"foundation", "roof"}
            => objs[placedPieces[k]].rotY = 0

\* build() has just placed a snapped foundation or roof where a turned wall
\* stands
C28_Witness ==
    /\ \E k \in 1..Len(placedPieces) :
          /\ objs[placedPieces[k]].buildingType = "wall"
          /\ objs[placedPieces[k]].rotY # 0
    /\ Len(placedPieces) = MaxAnchorPieces
    /\ objs[placedPieces[Len(placedPieces)]].buildingType
          \in {"foundation", "roof"}
    /\ lastCall.op = "build" /\ currentBlueprint = 0 /\ isSnapping

\* C29: with the unlimited-logs mode off, a removeItem(type, n) that
\* returned true has lowered getItemCount(type) by exactly n, and one that
\* returned false has left the inventory as it was
C29_RemoveItemExact ==
    args.fn = "removeItem" /\ ~unlimitedLogs
        => IF result.value
           THEN getItemCount(args.before, FALSE, args.type)
                    - getItemCount(slots, FALSE, args.type) = args.count
           ELSE slots = args.before

\* a step in which the day-night cycle invokes the callback cb
Invokes(cb) ==
    /\ Len(nightCallbacks') = Len(nightCallbacks) + 1
    /\ nightCallbacks'[Len(nightCallbacks')] = cb

\* C30: onNightStart and onNightEnd are invoked in strict alternation, the
\* first of them onNightStart, and every step from night to day invokes
\* onNightEnd
C30_CallbacksAlternate ==
    [][/\ Invokes("onNightStart")
          => \/ nightCallbacks = <<>>
             \/ nightCallbacks[Len(nightCallbacks)] = "onNightEnd"
       /\ Invokes("onNightEnd")
          => /\ nightCallbacks # <<>>
             /\ nightCallbacks[Len(nightCallbacks)] = "onNightStart"
       /\ dayNightCycle.isNight /\ ~dayNightCycle'.isNight
          => Invokes("onNightEnd")]_vars

====
